---- MODULE Spec2Model ----
(***************************************************************************)
(* A model of the two file rollers of haormj/roller:                       *)
(*   "L"  LumberjackRoller  (src/lumberjack_roller.go)                     *)
(*   "R"  Roller            (src/roller.go)                                *)
(* One instance writes to one canonical file.  The disk holds the          *)
(* canonical file and the backups, keyed by the timestamp in their name.   *)
(* A file is modelled by its length in bytes.  Write, Rotate and Close     *)
(* hold the instance lock from start to end, so each is one step; the      *)
(* background worker (millRun) takes its own steps.                        *)
(***************************************************************************)
EXTENDS Integers, Sequences, FiniteSets, TLC

\* ---------------------------------------------------------------- bounds
\* The max file size used by the size-triggered configurations.
SizeCap == 1
\* The clock starts at 1 and advances at most this many times, in units of the
\* resolution of the timestamp in a backup's name.
MaxTicks == 1

\* The offset of time.Local from UTC, in the same units.
LocalOffset == 1
\* The number of timestamps in the directories a retention pass is tried on.
MaxBackups == 3

\* The last value of the clock.
MaxTime == 1 + MaxTicks
\* The longest write tried: one byte more than the max file size.
MaxLen == SizeCap + 1
\* No file grows beyond the max file size of the size-triggered
\* configurations (this caps the configurations without a size trigger).
MaxFileLen == SizeCap

\* ------------------------------------------------------ program constants
SizeRotateStrategy == 0
DirectRotateStrategy == 1
\* capacity of LumberjackRoller.millCh: make(chan bool, 1)
LMillCap == 1
\* capacity of Roller.millCh: make(chan bool)
RMillCap == 0

\* A file that does not exist.
NoFile == 0 - 1
\* The zero time.Time (Roller.createTime after close).
ZeroTime == 0

Times == 1..MaxTime
\* The timestamps a backup's name can carry.
Names == 1..(MaxTime + LocalOffset)
Lens == 0..MaxLen
\* A write is complete, or one byte short.
Shorts == {0, 1}

\* The goroutines that call Write, Rotate and Close on the one instance.
Callers == {"a", "b"}
\* The value of the lock when nobody holds it.
NoCaller == "none"

\* The steps of a rotation that can fail, and "none".
Faults == {"none", "close", "mkdir", "rename", "chown", "open", "stat"}
\* What goes wrong in one call of Write: at most one of a failing step of the
\* rotation (f) and a short write (d).
WriteFaults == {<<f, d>> \in Faults \X Shorts : f = "none" \/ d = 0}

VARIABLES
    cfg,        \* Options: fixed at construction
    file,       \* r.file / r.f: "nil" or "open" (an open handle is on the canonical file)
    size,       \* r.size
    createTime, \* Roller.createTime
    canon,      \* length of the canonical file on disk, or NoFile
    backups,    \* backups[t]: length of the backup named with timestamp t, or NoFile
    millCh,     \* number of values buffered in millCh
    closed,     \* millCh has been closed (Roller.Close)
    worker,     \* the millRun goroutine: "none", "recv", "pass", "exit"
    now,        \* currentTime()
    last,       \* what the last call did and returned
    unseen,     \* a rotation succeeded and no retention pass has started since
    panicked,   \* a call panicked
    mu,         \* r.mu / r.lock: the goroutine that holds it, or NoCaller
    calls,      \* calls[p]: where goroutine p is in its call of Write, Rotate or Close
    gzs,        \* gzs[t]: length of the compressed backup named with timestamp t, or NoFile
    comp        \* compressLogFile: the backup being compressed and the statement reached

vars == <<cfg, file, size, createTime, canon, backups, millCh, closed, worker,
          now, last, unseen, panicked, mu, calls, gzs, comp>>

\* The lock and the calls in progress: they change only where the calls are
\* followed statement by statement.
conc == <<mu, calls, gzs, comp>>

\* compressLogFile is not running.
NoComp == [name |-> 0, at |-> "idle", err |-> "nil"]

\* The instance and the disk as one record, so that the methods are operators.
Cur ==
    [file |-> file, size |-> size, createTime |-> createTime, canon |-> canon,
     backups |-> backups, millCh |-> millCh, closed |-> closed, worker |-> worker,
     unseen |-> unseen, panicked |-> panicked]

Commit(s) ==
    /\ file' = s.file
    /\ size' = s.size
    /\ createTime' = s.createTime
    /\ canon' = s.canon
    /\ backups' = s.backups
    /\ millCh' = s.millCh
    /\ closed' = s.closed
    /\ worker' = s.worker
    /\ unseen' = s.unseen
    /\ panicked' = s.panicked

\* The result of an internal call: the state it leaves and the error it returns.
Ret(s, err) == [s |-> s, err |-> err]

\* No call has been made since the last step of the clock or the worker.
Idle ==
    [op |-> "none", len |-> 0, n |-> 0, err |-> "nil", wrote |-> 0, werr |-> "nil",
     reached |-> FALSE, rot |-> 0, rotOk |-> FALSE]

\* A goroutine that is in no call.
NoCall ==
    [pc |-> "idle", op |-> "none", len |-> 0, n |-> 0, err |-> "nil", t |-> 0,
     snap |-> <<>>]

\* ------------------------------------------------------------ the file
\* os.File.Write on the handle: k of the len bytes reach the file; a nil
\* handle takes none (ErrInvalid), fewer than len is a short write.
FileWrite(s, len, k) ==
    IF s.file = "nil"
    THEN [s |-> s, n |-> 0, werr |-> "invalid"]
    ELSE [s |-> [s EXCEPT !.canon = @ + k], n |-> k,
          werr |-> IF k = len THEN "nil" ELSE "short"]

\* A slip: the tracked size advanced by the requested length.
AdvanceByLen(s, n, len) == [s EXCEPT !.size = @ + len]

\* Write: r.size += int64(n), n the count returned by the file write.
Advance(s, n, len) == [s EXCEPT !.size = @ + n]

\* ---------------------------------------------------- LumberjackRoller
\* A slip: every request is queued, whatever is pending.
LMillQueue(s) ==
    LET s1 == IF s.worker = "none" THEN [s EXCEPT !.worker = "recv"] ELSE s
    IN  [s1 EXCEPT !.millCh = @ + 1]

\* A slip: the request is kept only when the worker is waiting for one.
LMillDropWhenBusy(s) ==
    LET s1 == IF s.worker = "none" THEN [s EXCEPT !.worker = "recv"] ELSE s
    IN  IF s1.worker = "recv" /\ s1.millCh < LMillCap
        THEN [s1 EXCEPT !.millCh = @ + 1] ELSE s1

\* mill: start the worker once, then a non-blocking send on millCh.
LMill(s) ==
    LET s1 == IF s.worker = "none" THEN [s EXCEPT !.worker = "recv"] ELSE s
    IN  IF s1.millCh < LMillCap THEN [s1 EXCEPT !.millCh = @ + 1] ELSE s1

\* A slip: a failed close returns before the handle is set to nil.
LCloseKeepHandle(s, f) ==
    IF s.file = "nil" THEN Ret(s, "nil")
    ELSE IF f = "close" THEN Ret(s, "close")
    ELSE Ret([s EXCEPT !.file = "nil"], "nil")

\* close: no-op on a nil handle; the handle is nil afterwards, error or not.
LClose(s, f) ==
    IF s.file = "nil"
    THEN Ret(s, "nil")
    ELSE Ret([s EXCEPT !.file = "nil"], IF f = "close" THEN "close" ELSE "nil")

\* chown (linux): creates the canonical file empty, then sets its owner.
Chown(s, f) ==
    Ret([s EXCEPT !.canon = 0], IF f = "chown" THEN "chown" ELSE "nil")

\* backupName: the name carries the current time as the wall clock of
\* BackupTimeLocation shows it, at the format's resolution.
backupName(t) == t + cfg.BackupTimeLocation

\* timeFromName: time.Parse reads the timestamp of a name as UTC.
timeFromName(name) == name

\* openNew: move an existing canonical file to its backup name, then
\* truncate-create the canonical file.
LOpenNew(s, f, t) ==
    IF f = "mkdir" THEN Ret(s, "mkdir")
    ELSE IF s.canon # NoFile
    THEN IF f = "rename" THEN Ret(s, "rename")
         ELSE LET moved == [s EXCEPT !.backups[backupName(t)] = s.canon,
                                     !.canon = NoFile]
                  ch == Chown(moved, f)
              IN  IF ch.err # "nil" THEN ch
                  ELSE IF f = "open" THEN Ret(ch.s, "open")
                  ELSE Ret([ch.s EXCEPT !.canon = 0, !.file = "open", !.size = 0], "nil")
    ELSE IF f = "open" THEN Ret(s, "open")
         ELSE Ret([s EXCEPT !.canon = 0, !.file = "open", !.size = 0], "nil")

\* rotate: close, openNew, mill.
LRotate(s, f, t) ==
    LET c == LClose(s, f)
    IN  IF c.err # "nil" THEN c
        ELSE LET o == LOpenNew(c.s, f, t)
             IN  IF o.err # "nil" THEN o
                 ELSE Ret(LMill([o.s EXCEPT !.unseen = TRUE]), "nil")

\* openExistingOrNew (called by the constructor with writeLen = 0): mill,
\* stat, then rotate, or open the file to append (openNew if that fails).
LOpenExistingOrNew(s, writeLen, f, t) ==
    LET m == LMill(s)
    IN  IF m.canon = NoFile THEN LOpenNew(m, f, t)
        ELSE IF f = "stat" THEN Ret(m, "stat")
        ELSE IF cfg.RotateStrategy = SizeRotateStrategy
                /\ m.canon + writeLen >= cfg.FileMaxSize
        THEN LRotate(m, f, t)
        ELSE IF cfg.RotateStrategy = DirectRotateStrategy /\ m.canon > 0
        THEN LRotate(m, f, t)
        ELSE IF f = "open" THEN LOpenNew(m, f, t)
        ELSE Ret([m EXCEPT !.file = "open", !.size = m.canon], "nil")

\* A slip: only the file name is validated.
LInvalidNameOnly(o) == o.FileName = ""

\* NewLumberjackRollerFromOptions: the options it refuses.
LInvalid(o) ==
    \/ o.RotateStrategy = SizeRotateStrategy /\ o.FileMaxSize <= 0
    \/ o.FileName = ""

\* NewLumberjackRollerFromOptions
LNew(o, s, f, t) ==
    IF LInvalid(o) THEN Ret(s, "config") ELSE LOpenExistingOrNew(s, 0, f, t)

\* A slip: the guard lets a write one byte too long through.
LTooLongOffByOne(len) == cfg.FileMaxSize > 0 /\ len > cfg.FileMaxSize + 1

\* Write: the guard on the length of a single write.
LTooLong(len) == cfg.FileMaxSize > 0 /\ len > cfg.FileMaxSize

\* A slip: the trigger fires when the write exactly fills the file.
LSizeTriggerOffByOne(s, len) == s.size + len >= cfg.FileMaxSize

\* Write, SizeRotateStrategy: the trigger evaluated before the write.
LSizeTrigger(s, len) == s.size + len > cfg.FileMaxSize

\* Write, after the length guard, under the lock.
LWriteSize(s, len, f, k, t) ==
    LET need == LSizeTrigger(s, len)
        r == IF need THEN LRotate(s, f, t) ELSE Ret(s, "nil")
        w == FileWrite(r.s, len, k)
    IN  IF r.err # "nil"
        THEN [s |-> r.s, n |-> 0, err |-> r.err, wrote |-> 0, werr |-> "nil",
              reached |-> FALSE, rot |-> 1, rotOk |-> FALSE]
        ELSE [s |-> Advance(w.s, w.n, len), n |-> w.n, err |-> w.werr,
              wrote |-> w.n, werr |-> w.werr, reached |-> TRUE,
              rot |-> IF need THEN 1 ELSE 0, rotOk |-> need]

\* A slip: DirectRotateStrategy rotating before the write instead of after it.
LWriteDirectRotateFirst(s, len, f, k, t) ==
    LET r == LRotate(s, f, t)
        w == FileWrite(r.s, len, k)
    IN  IF r.err # "nil"
        THEN [s |-> r.s, n |-> 0, err |-> r.err, wrote |-> 0, werr |-> "nil",
              reached |-> FALSE, rot |-> 1, rotOk |-> FALSE]
        ELSE [s |-> Advance(w.s, w.n, len), n |-> w.n, err |-> w.werr,
              wrote |-> w.n, werr |-> w.werr, reached |-> TRUE,
              rot |-> 1, rotOk |-> TRUE]

\* Write, DirectRotateStrategy: write, then rotate.
LWriteDirect(s, len, f, k, t) ==
    LET w == FileWrite(s, len, k)
        r == LRotate(Advance(w.s, w.n, len), f, t)
    IN  IF r.err # "nil"
        THEN [s |-> r.s, n |-> 0, err |-> r.err, wrote |-> w.n, werr |-> w.werr,
              reached |-> TRUE, rot |-> 1, rotOk |-> FALSE]
        ELSE [s |-> r.s, n |-> w.n, err |-> w.werr, wrote |-> w.n, werr |-> w.werr,
              reached |-> TRUE, rot |-> 1, rotOk |-> TRUE]

Rejected(s) ==
    [s |-> s, n |-> 0, err |-> "TooLong", wrote |-> 0, werr |-> "nil",
     reached |-> FALSE, rot |-> 0, rotOk |-> FALSE]

LWrite(s, len, f, k, t) ==
    IF LTooLong(len) THEN Rejected(s)
    ELSE IF cfg.RotateStrategy = SizeRotateStrategy THEN LWriteSize(s, len, f, k, t)
    ELSE LWriteDirect(s, len, f, k, t)

\* --------------------------------------- LumberjackRoller: retention pass
\* The directory of the backups: for each timestamp the uncompressed backup
\* and the compressed one (the same name with CompressSuffix appended).
Dir(bk, gz) == [log |-> bk, gz |-> gz]

\* logInfo: a file of the directory: the timestamp in its name, and whether
\* the name ends in CompressSuffix.
Entry(name, z) == [name |-> name, z |-> z]

\* os.FileInfo.Size
Size(d, e) == IF e.z THEN d.gz[e.name] ELSE d.log[e.name]

\* oldLogFiles: the backups, most recent timestamp first.  byFormatTime
\* compares timestamps only: the order of the two files of one timestamp is
\* whatever sort.Sort leaves (zFirst: the compressed one comes first).
RECURSIVE NewestFirst(_, _, _)
NewestFirst(d, name, zFirst) ==
    IF name < 1 THEN <<>>
    ELSE LET l == IF d.log[name] # NoFile THEN <<Entry(name, FALSE)>> ELSE <<>>
             g == IF d.gz[name] # NoFile THEN <<Entry(name, TRUE)>> ELSE <<>>
         IN  (IF zFirst THEN g \o l ELSE l \o g) \o NewestFirst(d, name - 1, zFirst)

oldLogFiles(d, zFirst) == NewestFirst(d, Len(d.log), zFirst)

\* A slip: the files already marked for removal do not count in the total.
RECURSIVE SizeWalkSkipRemoved(_, _, _, _)
SizeWalkSkipRemoved(files, d, total, max) ==
    IF files = <<>> THEN <<>>
    ELSE LET tot == total + Size(d, Head(files))
         IN  IF tot > max
             THEN SizeWalkSkipRemoved(Tail(files), d, total, max)
             ELSE <<Head(files)>> \o SizeWalkSkipRemoved(Tail(files), d, tot, max)

\* millRunOnce, total-size filter: the survivors of the walk.
RECURSIVE SizeWalk(_, _, _, _)
SizeWalk(files, d, total, max) ==
    IF files = <<>> THEN <<>>
    ELSE LET tot == total + Size(d, Head(files))
         IN  IF tot > max
             THEN SizeWalk(Tail(files), d, tot, max)
             ELSE <<Head(files)>> \o SizeWalk(Tail(files), d, tot, max)

\* A slip: every file counts, the compressed and the uncompressed one of a
\* backup too.
RECURSIVE CountWalkFiles(_, _, _)
CountWalkFiles(files, preserved, max) ==
    IF files = <<>> THEN <<>>
    ELSE LET pr == preserved \cup {Head(files)}
         IN  IF Cardinality(pr) > max
             THEN CountWalkFiles(Tail(files), pr, max)
             ELSE <<Head(files)>> \o CountWalkFiles(Tail(files), pr, max)

\* millRunOnce, count filter: the survivors of the walk; preserved holds the
\* names with CompressSuffix trimmed.
RECURSIVE CountWalk(_, _, _)
CountWalk(files, preserved, max) ==
    IF files = <<>> THEN <<>>
    ELSE LET pr == preserved \cup {Head(files).name}
         IN  IF Cardinality(pr) > max
             THEN CountWalk(Tail(files), pr, max)
             ELSE <<Head(files)>> \o CountWalk(Tail(files), pr, max)

\* millRunOnce, age filter: the survivors.
AgeWalk(files, t, age) ==
    LET cutoff == t - age
    IN  SelectSeq(files, LAMBDA f : ~(timeFromName(f.name) < cutoff))

\* A slip: a file is kept when the count filter or the age filter keeps it.
SurvivorsEitherCap(o, d, files, t) ==
    LET f1 == IF o.MaxSize > 0 THEN SizeWalk(files, d, 0, o.MaxSize) ELSE files
        f2 == IF o.FileMaxCount > 0 /\ o.FileMaxCount < Len(f1)
              THEN CountWalk(f1, {}, o.FileMaxCount) ELSE f1
        f3 == IF o.FileMaxAge > 0 THEN AgeWalk(f1, t, o.FileMaxAge) ELSE f1
    IN  SelectSeq(f1, LAMBDA f : (\E i \in 1..Len(f2) : f2[i] = f)
                                   \/ (\E i \in 1..Len(f3) : f3[i] = f))

\* millRunOnce: the files that survive the filters, each filter walking the
\* survivors of the one before.
Survivors(o, d, files, t) ==
    LET f1 == IF o.MaxSize > 0 THEN SizeWalk(files, d, 0, o.MaxSize) ELSE files
        f2 == IF o.FileMaxCount > 0 /\ o.FileMaxCount < Len(f1)
              THEN CountWalk(f1, {}, o.FileMaxCount) ELSE f1
    IN  IF o.FileMaxAge > 0 THEN AgeWalk(f2, t, o.FileMaxAge) ELSE f2

\* ------------------------------------ LumberjackRoller: compressLogFile
\* The statements of compressLogFile that can fail, in order.
CompressStages ==
    <<"open", "stat", "chown", "create", "copy", "gzclose", "gzfclose", "fclose",
      "remove">>

\* The statement after statement at.
NextStage(at) ==
    LET i == CHOOSE j \in 1..Len(CompressStages) : CompressStages[j] = at
    IN  IF i = Len(CompressStages) THEN "done" ELSE CompressStages[i + 1]

\* A slip: the deferred clean-up removes the source.
CleanupSource(d, name) == [d EXCEPT !.log[name] = NoFile]

\* The deferred function of compressLogFile: os.Remove(dst) on an error.
Cleanup(d, name) == [d EXCEPT !.gz[name] = NoFile]

\* One statement of compressLogFile(src, dst) on the backup c.name.  fail: the
\* statement returns an error; made: chown creates dst before it sets the
\* owner; g: the length of the complete compressed file.  A dst of length 0
\* is created but not yet a complete compressed file: gzip writes the last of
\* it on gz.Close.
compressStep(d, c, fail, g, made) ==
    LET stop(dd) == [d |-> dd, c |-> [c EXCEPT !.at = "done", !.err = c.at]]
        go(dd) == [d |-> dd, c |-> [c EXCEPT !.at = NextStage(c.at)]]
        trunc == [d EXCEPT !.gz[c.name] = 0]
    IN  IF c.at \in {"open", "stat"} THEN (IF fail THEN stop(d) ELSE go(d))
        ELSE IF c.at = "chown"
        THEN LET dd == IF made THEN trunc ELSE d
             IN  IF fail THEN stop(dd) ELSE go(dd)
        ELSE IF c.at = "create" THEN (IF fail THEN stop(d) ELSE go(trunc))
        ELSE IF fail THEN stop(Cleanup(d, c.name))
        ELSE IF c.at = "gzclose" THEN go([d EXCEPT !.gz[c.name] = g])
        ELSE IF c.at = "remove" THEN go([d EXCEPT !.log[c.name] = NoFile])
        ELSE go(d)

\* compressLogFile when no statement fails.
RECURSIVE compressRun(_, _, _)
compressRun(d, c, g) ==
    IF c.at = "done" THEN d
    ELSE LET r == compressStep(d, c, FALSE, g, TRUE)
         IN  compressRun(r.d, r.c, g)

compressLogFile(d, name, g) == compressRun(d, [NoComp EXCEPT !.name = name, !.at = "open"], g)

\* millRunOnce: the loop over the files to compress.
RECURSIVE CompressAll(_, _, _)
CompressAll(d, files, g) ==
    IF files = <<>> THEN d
    ELSE CompressAll(compressLogFile(d, Head(files).name, g), Tail(files), g)

\* The files of the directory that are not in keep are removed.
RemoveOthers(d, keep) ==
    [log |-> [x \in DOMAIN d.log |->
                 IF Entry(x, FALSE) \in keep THEN d.log[x] ELSE NoFile],
     gz |-> [x \in DOMAIN d.gz |->
                 IF Entry(x, TRUE) \in keep THEN d.gz[x] ELSE NoFile]]

\* millRunOnce with options o at time t: the directory one pass leaves.
millRunOnce(o, d, zFirst, g, t) ==
    IF o.MaxSize = 0 /\ o.FileMaxCount = 0 /\ o.FileMaxAge = 0 /\ ~o.Compress
    THEN d
    ELSE LET files == Survivors(o, d, oldLogFiles(d, zFirst), t)
             keep == {files[i] : i \in 1..Len(files)}
             compress == IF o.Compress THEN SelectSeq(files, LAMBDA f : ~f.z) ELSE <<>>
         IN  CompressAll(RemoveOthers(d, keep), compress, g)

\* ---------------------------------------------------------------- Roller
\* mill: a non-blocking send on the unbuffered millCh: it is taken only by a
\* worker waiting at its receive; on a closed channel the send panics.
RMill(s) ==
    IF s.closed THEN [s EXCEPT !.panicked = TRUE]
    ELSE IF s.worker = "recv" THEN [s EXCEPT !.worker = "pass", !.unseen = FALSE]
    ELSE IF s.millCh < RMillCap THEN [s EXCEPT !.millCh = @ + 1]
    ELSE s

\* close: no-op on a nil handle; handle, size and creation time are reset.
RClose(s, f) ==
    IF s.file = "nil"
    THEN Ret(s, "nil")
    ELSE Ret([s EXCEPT !.file = "nil", !.size = 0, !.createTime = ZeroTime],
             IF f = "close" THEN "close" ELSE "nil")

\* open: append to an existing canonical file or create it, then stat it.
ROpen(s, f, t) ==
    LET o == IF s.canon # NoFile
             THEN Ret(s, IF f = "open" THEN "open" ELSE "nil")
             ELSE IF f = "mkdir" THEN Ret(s, "mkdir")
             ELSE IF f = "open" THEN Ret(s, "open")
             ELSE Ret([s EXCEPT !.canon = 0], "nil")
    IN  IF o.err # "nil" THEN o
        ELSE IF f = "stat" THEN Ret(o.s, "stat")
        ELSE Ret([o.s EXCEPT !.file = "open", !.size = o.s.canon, !.createTime = t],
                 "nil")

\* defaultRotateName: the name carries the current time.
RotateName(t) == t

\* rotate: close, mkdir, rename, open, mill.
RRotate(s, f, t) ==
    LET c == RClose(s, f)
    IN  IF c.err # "nil" THEN c
        ELSE IF f = "mkdir" THEN Ret(c.s, "mkdir")
        ELSE IF c.s.canon = NoFile \/ f = "rename" THEN Ret(c.s, "rename")
        ELSE LET moved == [c.s EXCEPT !.backups[RotateName(t)] = c.s.canon,
                                      !.canon = NoFile]
                 o == ROpen(moved, f, t)
             IN  IF o.err # "nil" THEN o
                 ELSE LET m == RMill([o.s EXCEPT !.unseen = TRUE])
                      IN  Ret(m, IF m.panicked THEN "panic" ELSE "nil")

\* NewRoller: the options it refuses.
RInvalid(o) == o.FileName = ""

\* NewRoller: with lifecycle management the worker goroutine is started; then
\* the file is opened.
RNew(o, s, f, t) ==
    IF RInvalid(o) THEN Ret(s, "config")
    ELSE ROpen(IF o.Lifecycle THEN [s EXCEPT !.worker = "start"] ELSE s, f, t)

\* Write: the guard on the length of a single write.
RTooLong(len) == cfg.Size > 0 /\ len > cfg.Size

\* isRotate: the size trigger or the duration trigger.
isRotate(s, len, t) ==
    \/ cfg.Size > 0 /\ len + s.size > cfg.Size
    \/ cfg.Duration > 0 /\ (s.createTime = ZeroTime \/ t - s.createTime > cfg.Duration)

RWrite(s, len, f, k, t) ==
    IF RTooLong(len) THEN Rejected(s)
    ELSE LET need == isRotate(s, len, t)
             r == IF need THEN RRotate(s, f, t) ELSE Ret(s, "nil")
             w == FileWrite(r.s, len, k)
         IN  IF r.err # "nil"
             THEN [s |-> r.s, n |-> 0, err |-> r.err, wrote |-> 0, werr |-> "nil",
                   reached |-> FALSE, rot |-> 1, rotOk |-> FALSE]
             ELSE [s |-> Advance(w.s, w.n, len), n |-> w.n, err |-> w.werr,
                   wrote |-> w.n, werr |-> w.werr, reached |-> TRUE,
                   rot |-> IF need THEN 1 ELSE 0, rotOk |-> need]

\* Close: close(millCh) panics on a closed channel; then close the file.
RCloseOp(s, f) ==
    IF s.closed THEN Ret([s EXCEPT !.panicked = TRUE], "panic")
    ELSE RClose([s EXCEPT !.closed = TRUE], f)

\* -------------------------------------------------------- configurations
Options(impl, strategy, fileMaxSize, fileMaxCount, loc, sz, duration, lifecycle) ==
    [impl |-> impl, RotateStrategy |-> strategy, FileMaxSize |-> fileMaxSize,
     FileMaxCount |-> fileMaxCount, MaxSize |-> 0, FileMaxAge |-> 0,
     Compress |-> FALSE, BackupTimeLocation |-> loc, FileName |-> "app.log",
     Size |-> sz, Duration |-> duration, Lifecycle |-> lifecycle]

\* NewLumberjackRoller: size rotation; rotation after every write, with and
\* without a max file size; with and without a cap on the number of backups;
\* backups named in time.Local (the default) and in UTC.
LOptions ==
    {Options("L", SizeRotateStrategy, SizeCap, 1, LocalOffset, 0, 0, FALSE),
     Options("L", DirectRotateStrategy, 0, 1, 0, 0, 0, FALSE),
     Options("L", DirectRotateStrategy, SizeCap, 0, LocalOffset, 0, 0, FALSE)}

\* NewRoller: the size trigger with lifecycle management (the background
\* worker), the duration trigger without.
ROptions ==
    {Options("R", SizeRotateStrategy, 0, 0, 0, SizeCap, 0, TRUE),
     Options("R", SizeRotateStrategy, 0, 0, 0, 0, 1, FALSE)}

Configs == LOptions \cup ROptions

\* The canonical file found at construction: absent, empty or full.
InitialFiles == {NoFile, 0, SizeCap}

\* The instance before the constructor opens the file.
Fresh(c, d) ==
    [file |-> "nil", size |-> 0, createTime |-> ZeroTime, canon |-> d,
     backups |-> [t \in Names |-> NoFile], millCh |-> 0, closed |-> FALSE,
     worker |-> "none",
     unseen |-> FALSE, panicked |-> FALSE]

\* NewLumberjackRollerFromOptions / NewRoller on a disk without faults.
Construct(c, d) ==
    IF c.impl = "L"
    THEN LNew(c, Fresh(c, d), "none", 1).s
    ELSE RNew(c, Fresh(c, d), "none", 1).s

InitOf(configs) ==
    \E c \in configs, d \in InitialFiles :
        /\ cfg = c
        /\ now = 1
        /\ last = [Idle EXCEPT !.op = "New"]
        /\ mu = NoCaller
        /\ calls = [p \in Callers |-> NoCall]
        /\ gzs = [t \in Names |-> NoFile]
        /\ comp = NoComp
        /\ LET s == Construct(c, d)
           IN  /\ file = s.file
               /\ size = s.size
               /\ createTime = s.createTime
               /\ canon = s.canon
               /\ backups = s.backups
               /\ millCh = s.millCh
               /\ closed = s.closed
               /\ worker = s.worker
               /\ unseen = s.unseen
               /\ panicked = s.panicked

Init == InitOf(Configs)

\* ----------------------------------------------------------------- actions
\* Write(p): len(p) = len; f is the step of the rotation that fails, if one
\* does; k is the number of bytes the file accepts, fewer than len in a short
\* write.
Write(len, f, k) ==
    /\ ~panicked
    /\ \E res \in {IF cfg.impl = "L" THEN LWrite(Cur, len, f, k, now)
                   ELSE RWrite(Cur, len, f, k, now)} :
           /\ f = "none" \/ res.err = f
           /\ k = len \/ res.werr = "short"
           /\ res.s.canon <= MaxFileLen
           /\ Commit(res.s)
           /\ last' = [op |-> "Write", len |-> len, n |-> res.n, err |-> res.err,
                       wrote |-> res.wrote, werr |-> res.werr,
                       reached |-> res.reached, rot |-> res.rot, rotOk |-> res.rotOk]
    /\ UNCHANGED <<cfg, now, mu, calls, gzs, comp>>

Rotate(f) ==
    /\ ~panicked
    /\ \E res \in {IF cfg.impl = "L" THEN LRotate(Cur, f, now)
                   ELSE RRotate(Cur, f, now)} :
           /\ f = "none" \/ res.err = f
           /\ Commit(res.s)
           /\ last' = [Idle EXCEPT !.op = "Rotate", !.err = res.err,
                                   !.rot = 1, !.rotOk = (res.err = "nil")]
    /\ UNCHANGED <<cfg, now, mu, calls, gzs, comp>>

Close(f) ==
    /\ ~panicked
    /\ \E res \in {IF cfg.impl = "L" THEN LClose(Cur, f) ELSE RCloseOp(Cur, f)} :
           /\ f = "none" \/ res.err = f
           /\ Commit(res.s)
           /\ last' = [Idle EXCEPT !.op = "Close", !.err = res.err]
    /\ UNCHANGED <<cfg, now, mu, calls, gzs, comp>>

\* The clock advances.
Tick ==
    /\ ~panicked
    /\ now < MaxTime
    /\ now' = now + 1
    /\ last' = Idle
    /\ UNCHANGED <<cfg, file, size, createTime, canon, backups, millCh, closed,
                   worker, unseen, panicked, mu, calls, gzs, comp>>

\* millRun (Roller): the goroutine started by NewRoller reaches its receive.
MillStart ==
    /\ ~panicked
    /\ worker = "start"
    /\ worker' = "recv"
    /\ last' = Idle
    /\ UNCHANGED <<cfg, file, size, createTime, canon, backups, millCh, closed,
                   now, unseen, panicked, mu, calls, gzs, comp>>

\* millRun: the worker takes the buffered value and starts a pass.
MillReceive ==
    /\ ~panicked
    /\ worker = "recv"
    /\ millCh > 0
    /\ millCh' = millCh - 1
    /\ worker' = "pass"
    /\ unseen' = FALSE
    /\ last' = Idle
    /\ UNCHANGED <<cfg, file, size, createTime, canon, backups, closed, now, panicked,
                   mu, calls, gzs, comp>>

\* fileshredder.MillRunOnce (a library): it leaves the backups or removes the oldest.
ShredderRuns(bk) ==
    {bk} \cup {[bk EXCEPT ![t] = NoFile] :
                 t \in {x \in Names : bk[x] # NoFile /\ \A y \in 1..(x - 1) : bk[y] = NoFile}}

\* millRun: the pass ends and the worker returns to its receive.
MillPass ==
    /\ ~panicked
    /\ worker = "pass"
    /\ \E d \in (IF cfg.impl = "L"
                  THEN {millRunOnce(cfg, Dir(backups, gzs), FALSE, 1, now)}
                  ELSE {Dir(bk, gzs) : bk \in ShredderRuns(backups)}) :
           /\ backups' = d.log
           /\ gzs' = d.gz
    /\ worker' = "recv"
    /\ last' = Idle
    /\ UNCHANGED <<cfg, file, size, createTime, canon, millCh, closed, now, unseen,
                   panicked, mu, calls, comp>>

\* millRun: the range loop ends on the closed, drained channel.
MillExit ==
    /\ ~panicked
    /\ worker = "recv"
    /\ closed
    /\ millCh = 0
    /\ worker' = "exit"
    /\ last' = Idle
    /\ UNCHANGED <<cfg, file, size, createTime, canon, backups, millCh, closed,
                   now, unseen, panicked, mu, calls, gzs, comp>>

Next ==
    \/ \E len \in Lens, x \in WriteFaults : x[2] <= len /\ Write(len, x[1], len - x[2])
    \/ \E f \in Faults : Rotate(f)
    \/ \E f \in {"none", "close"} : Close(f)
    \/ Tick
    \/ MillStart
    \/ MillReceive
    \/ MillPass
    \/ MillExit

Spec == Init /\ [][Next]_vars

\* LumberjackRoller alone, with the Go scheduler running its worker goroutine
\* whenever the goroutine can take a step.  Writes are complete and their
\* rotations succeed; any step of an explicit Rotate may fail.
LInit == InitOf(LOptions)

LNext ==
    \/ \E len \in Lens : Write(len, "none", len)
    \/ \E f \in Faults : Rotate(f)
    \/ \E f \in {"none", "close"} : Close(f)
    \/ Tick
    \/ MillReceive
    \/ MillPass

LFairSpec == LInit /\ [][LNext]_vars /\ WF_vars(MillReceive) /\ WF_vars(MillPass)

\* Roller alone, its channel open, with the Go scheduler running its worker
\* goroutine whenever the goroutine can take a step.  Writes are complete and
\* their rotations succeed; any step of an explicit Rotate may fail.
RInit == InitOf(ROptions)

RNext ==
    \/ \E len \in Lens : Write(len, "none", len)
    \/ \E f \in Faults : Rotate(f)
    \/ Tick
    \/ MillStart
    \/ MillPass

RFairSpec == RInit /\ [][RNext]_vars /\ WF_vars(MillStart) /\ WF_vars(MillPass)

\* LumberjackRoller rotates after every write.
Direct == cfg.impl = "L" /\ cfg.RotateStrategy = DirectRotateStrategy

\* --------------------------------------------- calls, statement by statement
\* Several goroutines call Write, Rotate and Close on one instance.  A call is
\* followed through its statements: the guard on the length (before the
\* lock), Lock, the rotation, the file write, the size update, and the
\* deferred Unlock on return.  No step of the filesystem fails here.
ConcOptions ==
    {Options("L", SizeRotateStrategy, SizeCap, 1, LocalOffset, 0, 0, FALSE),
     Options("L", DirectRotateStrategy, SizeCap, 0, 0, 0, 0, FALSE),
     Options("R", SizeRotateStrategy, 0, 0, 0, SizeCap, 0, TRUE)}

ConcInit == InitOf(ConcOptions)

\* The state the lock protects (and the channel Close closes), as the call
\* finds it when it takes the lock.
Protected ==
    [file |-> file, size |-> size, createTime |-> createTime, canon |-> canon,
     closed |-> closed]

\* The statement a call runs first under the lock.
FirstStep(op) ==
    IF op = "Close" THEN "close"
    ELSE IF op = "Write" /\ Direct THEN "write"
    ELSE "rot"

\* Write: the guard on the length, then the call waits for the lock; Rotate
\* and Close go to the lock at once.
Begin(p, op, len) ==
    /\ ~panicked
    /\ calls[p].pc = "idle"
    /\ LET long == IF cfg.impl = "L" THEN LTooLong(len) ELSE RTooLong(len)
       IN  calls' = [calls EXCEPT ![p] =
                IF op = "Write" /\ long
                THEN [NoCall EXCEPT !.pc = "ret", !.op = op, !.len = len,
                                    !.err = "TooLong"]
                ELSE [NoCall EXCEPT !.pc = "lock", !.op = op, !.len = len]]
    /\ UNCHANGED <<cfg, file, size, createTime, canon, backups, millCh, closed,
                   worker, now, last, unseen, panicked, mu, gzs, comp>>

\* A rejected Write has returned.
Return(p) ==
    /\ ~panicked
    /\ calls[p].pc = "ret"
    /\ calls' = [calls EXCEPT ![p] = NoCall]
    /\ UNCHANGED <<cfg, file, size, createTime, canon, backups, millCh, closed,
                   worker, now, last, unseen, panicked, mu, gzs, comp>>

\* A slip: the call goes on without the lock.
MuFreeAlways == TRUE

\* sync.Mutex: Lock returns only when no goroutine holds the lock.
MuFree == mu = NoCaller

\* r.mu.Lock() / r.lock.Lock()
Lock(p) ==
    /\ ~panicked
    /\ calls[p].pc = "lock"
    /\ MuFree
    /\ mu' = p
    /\ calls' = [calls EXCEPT ![p].pc = FirstStep(calls[p].op), ![p].snap = Protected]
    /\ UNCHANGED <<cfg, file, size, createTime, canon, backups, millCh, closed,
                   worker, now, last, unseen, panicked, gzs, comp>>

\* The trigger and rotate(): Write (before the file write, or after it with
\* DirectRotateStrategy) and Rotate.
StepRotate(p) ==
    /\ ~panicked
    /\ calls[p].pc = "rot"
    /\ LET c == calls[p]
           need == \/ c.op = "Rotate"
                   \/ Direct
                   \/ cfg.impl = "L" /\ LSizeTrigger(Cur, c.len)
                   \/ cfg.impl = "R" /\ isRotate(Cur, c.len, now)
       IN  \E r \in {IF ~need THEN Ret(Cur, "nil")
                      ELSE IF cfg.impl = "L" THEN LRotate(Cur, "none", now)
                      ELSE RRotate(Cur, "none", now)} :
               /\ Commit(r.s)
               /\ calls' = [calls EXCEPT ![p] =
                      IF r.err # "nil"
                      THEN [c EXCEPT !.pc = "unlock", !.n = 0, !.err = r.err, !.t = now]
                      ELSE IF c.op = "Write" /\ ~Direct
                      THEN [c EXCEPT !.pc = "write", !.t = now]
                      ELSE [c EXCEPT !.pc = "unlock", !.t = now]]
    /\ UNCHANGED <<cfg, now, last, mu, gzs, comp>>

\* n, err = r.file.Write(p)
StepWrite(p) ==
    /\ ~panicked
    /\ calls[p].pc = "write"
    /\ \E w \in {FileWrite(Cur, calls[p].len, calls[p].len)} :
           /\ Commit(w.s)
           /\ calls' = [calls EXCEPT ![p].pc = "add", ![p].n = w.n, ![p].err = w.werr]
    /\ UNCHANGED <<cfg, now, last, mu, gzs, comp>>

\* r.size += int64(n)
StepAdd(p) ==
    /\ ~panicked
    /\ calls[p].pc = "add"
    /\ Commit(Advance(Cur, calls[p].n, calls[p].len))
    /\ calls' = [calls EXCEPT ![p].pc = IF Direct THEN "rot" ELSE "unlock"]
    /\ UNCHANGED <<cfg, now, last, mu, gzs, comp>>

\* Close: close(r.millCh) (Roller), r.close()
StepClose(p) ==
    /\ ~panicked
    /\ calls[p].pc = "close"
    /\ \E r \in {IF cfg.impl = "L" THEN LClose(Cur, "none") ELSE RCloseOp(Cur, "none")} :
           /\ Commit(r.s)
           /\ calls' = [calls EXCEPT ![p].pc = "unlock", ![p].err = r.err]
    /\ UNCHANGED <<cfg, now, last, mu, gzs, comp>>

\* The deferred Unlock: the call returns.
Unlock(p) ==
    /\ ~panicked
    /\ calls[p].pc = "unlock"
    /\ mu' = NoCaller
    /\ calls' = [calls EXCEPT ![p] = NoCall]
    /\ UNCHANGED <<cfg, file, size, createTime, canon, backups, millCh, closed,
                   worker, now, last, unseen, panicked, gzs, comp>>

ConcNext ==
    \/ \E p \in Callers, len \in Lens : Begin(p, "Write", len)
    \/ \E p \in Callers, op \in {"Rotate", "Close"} : Begin(p, op, 0)
    \/ \E p \in Callers : Return(p)
    \/ \E p \in Callers : Lock(p)
    \/ \E p \in Callers : StepRotate(p)
    \/ \E p \in Callers : StepWrite(p)
    \/ \E p \in Callers : StepAdd(p)
    \/ \E p \in Callers : StepClose(p)
    \/ \E p \in Callers : Unlock(p)
    \/ Tick
    \/ MillStart
    \/ MillReceive
    \/ MillPass
    \/ MillExit

ConcSpec == ConcInit /\ [][ConcNext]_vars

\* ------------------------------------------------- one retention pass
\* millRunOnce as a function of the options, the directory and the time: the
\* directory is any set of backups of up to MaxBackups timestamps, each
\* uncompressed, compressed or both, and passes follow one another with
\* nothing else touching the directory.
MillNames == 1..MaxBackups
\* The lengths of the uncompressed backups.
BackupLens == {1, 2}
\* The lengths of a compressed backup: gzip may shorten a file or lengthen it.
GzLens == {1, 2}
\* The caps tried; 0 is a cap that is not set.
SizeCaps == {0, 2}
CountCaps == {0, 1, 2}
AgeCaps == {0, 1, 2}

MillOptions ==
    {[Options("L", DirectRotateStrategy, 0, c, 0, 0, 0, FALSE)
         EXCEPT !.MaxSize = m, !.FileMaxAge = a, !.Compress = z] :
       m \in SizeCaps, c \in CountCaps, a \in AgeCaps, z \in BOOLEAN}

MillInit ==
    /\ cfg \in MillOptions
    /\ backups \in [MillNames -> {NoFile} \cup BackupLens]
    /\ gzs \in [MillNames -> {NoFile, 1}]
    /\ now = MaxBackups
    /\ last = [op |-> "none", zFirst |-> FALSE, log |-> backups, gz |-> gzs]
    /\ file = "nil" /\ size = 0 /\ createTime = ZeroTime /\ canon = NoFile
    /\ millCh = 0 /\ closed = FALSE /\ worker = "pass"
    /\ unseen = FALSE /\ panicked = FALSE
    /\ mu = NoCaller
    /\ calls = [p \in Callers |-> NoCall]
    /\ comp = NoComp

\* Some backup has both its files.
SomePair == \E x \in MillNames : backups[x] # NoFile /\ gzs[x] # NoFile

\* millRun: r.millRunOnce()
MillRunOnce(zFirst, g) ==
    /\ zFirst => SomePair
    /\ \E d \in {millRunOnce(cfg, Dir(backups, gzs), zFirst, g, now)} :
           /\ backups' = d.log
           /\ gzs' = d.gz
    /\ last' = [op |-> "Mill", zFirst |-> zFirst, log |-> backups, gz |-> gzs]
    /\ UNCHANGED <<cfg, file, size, createTime, canon, millCh, closed, worker, now,
                   unseen, panicked, mu, calls, comp>>

MillNext == \E zFirst \in BOOLEAN, g \in GzLens : MillRunOnce(zFirst, g)

MillSpec == MillInit /\ [][MillNext]_vars

\* ----------------------------------------------------------- construction
\* The constructors on any options, valid or not, with any one step of the
\* filesystem failing.
NewOptions ==
    Configs
    \cup {[o EXCEPT !.FileName = ""] : o \in Configs}
    \cup {[o EXCEPT !.FileMaxSize = m] :
             o \in {c \in LOptions : c.RotateStrategy = SizeRotateStrategy},
             m \in {0, 0 - 1}}

\* Before the constructor is called: the disk holds the canonical file or
\* not, and there is no instance.
NewInit ==
    \E c \in NewOptions, d \in InitialFiles :
        /\ cfg = c
        /\ now \in Times
        /\ last = Idle
        /\ file = "nil" /\ size = 0 /\ createTime = ZeroTime /\ canon = d
        /\ backups = [t \in Names |-> NoFile]
        /\ gzs = [t \in Names |-> NoFile]
        /\ millCh = 0 /\ closed = FALSE /\ worker = "none"
        /\ unseen = FALSE /\ panicked = FALSE
        /\ mu = NoCaller
        /\ calls = [p \in Callers |-> NoCall]
        /\ comp = NoComp

\* NewLumberjackRollerFromOptions / NewRoller: it returns an instance and a
\* nil error, or no instance and an error.
New(f) ==
    /\ last.op = "none"
    /\ \E res \in {IF cfg.impl = "L" THEN LNew(cfg, Cur, f, now)
                   ELSE RNew(cfg, Cur, f, now)} :
           /\ f = "none" \/ res.err = f
           /\ Commit(res.s)
           /\ last' = [Idle EXCEPT !.op = "New", !.err = res.err]
    /\ UNCHANGED <<cfg, now, mu, calls, gzs, comp>>

NewNext == \E f \in Faults : New(f)

NewSpec == NewInit /\ [][NewNext]_vars

\* -------------------------------------------------- one compression
\* compressLogFile followed statement by statement, any statement failing,
\* on the uncompressed backups a pass has left in the directory (some with a
\* compressed file of the same name left by an earlier attempt).
CompressInit ==
    /\ cfg = [Options("L", DirectRotateStrategy, 0, 0, 0, 0, 0, FALSE)
                 EXCEPT !.Compress = TRUE]
    /\ backups \in [MillNames -> {NoFile} \cup BackupLens]
    /\ gzs \in [MillNames -> {NoFile, 1}]
    /\ now = MaxBackups
    /\ last = [op |-> "none", zFirst |-> FALSE, log |-> backups, gz |-> gzs]
    /\ file = "nil" /\ size = 0 /\ createTime = ZeroTime /\ canon = NoFile
    /\ millCh = 0 /\ closed = FALSE /\ worker = "pass"
    /\ unseen = FALSE /\ panicked = FALSE
    /\ mu = NoCaller
    /\ calls = [p \in Callers |-> NoCall]
    /\ comp = NoComp

\* millRunOnce: r.compressLogFile(fn, fn+r.opts.CompressSuffix) for a file
\* without the suffix.
CompressBegin(x) ==
    /\ comp.at \in {"idle", "done"}
    /\ backups[x] # NoFile
    /\ comp' = [NoComp EXCEPT !.name = x, !.at = "open"]
    /\ UNCHANGED <<cfg, file, size, createTime, canon, backups, millCh, closed,
                   worker, now, last, unseen, panicked, mu, calls, gzs>>

\* The next statement of compressLogFile.
CompressStep(fail, g, made) ==
    /\ comp.at \notin {"idle", "done"}
    /\ made => comp.at = "chown"
    /\ g # 1 => (comp.at = "gzclose" /\ ~fail)
    /\ \E r \in {compressStep(Dir(backups, gzs), comp, fail, g, made)} :
           /\ backups' = r.d.log
           /\ gzs' = r.d.gz
           /\ comp' = r.c
    /\ UNCHANGED <<cfg, file, size, createTime, canon, millCh, closed, worker, now,
                   last, unseen, panicked, mu, calls>>

CompressNext ==
    \/ \E x \in MillNames : CompressBegin(x)
    \/ \E fail \in BOOLEAN, g \in GzLens, made \in BOOLEAN : CompressStep(fail, g, made)

CompressSpec == CompressInit /\ [][CompressNext]_vars

\* ------------------------------------------------------------- properties
\* The configured max size of one file (FileMaxSize / Size).
MaxFile == IF cfg.impl = "L" THEN cfg.FileMaxSize ELSE cfg.Size

\* Rotation is triggered by size alone.
SizeOnly ==
    \/ cfg.impl = "L" /\ cfg.RotateStrategy = SizeRotateStrategy
    \/ cfg.impl = "R" /\ cfg.Size > 0 /\ cfg.Duration = 0

\* The errors of the steps of a rotation.
RotErrs == {"close", "mkdir", "rename", "chown", "open", "stat"}

\* The name a rotation gives the backup now.
NameNow == IF cfg.impl = "L" THEN backupName(now) ELSE RotateName(now)

\* The state of the instance and of the disk.
inst == <<file, size, createTime, canon, backups, millCh, closed, worker, unseen,
          panicked>>

\* C1: with rotation by size alone and max size S, a Write of length <= S
\* rotates (once, before writing) exactly when tracked size + length > S; after
\* a successful rotation the canonical file and the tracked size hold only the
\* bytes of that write and the former canonical file is the backup; a Write
\* that does not cross S leaves the backups alone.
C1_SizeRotation ==
    [][(SizeOnly /\ last'.op = "Write" /\ last'.len <= MaxFile) =>
          /\ (last'.rot = 1) <=> (size + last'.len > MaxFile)
          /\ last'.rot = 0 => backups' = backups
          /\ last'.rotOk =>
                /\ size' = last'.n
                /\ canon' = last'.n
                /\ file' = "open"
                /\ backups' = IF canon = NoFile THEN backups
                              ELSE [backups EXCEPT ![NameNow] = canon]]_vars

\* C1 witness: a write crossed S: the earlier bytes are in a backup and the
\* canonical file holds this write alone.
C1_Witness ==
    /\ SizeOnly /\ last.op = "Write" /\ last.rotOk
    /\ last.len > 0 /\ last.n = last.len
    /\ size = last.len /\ canon = last.len
    /\ backups[NameNow] > 0

\* C2: with a max size S > 0, a Write longer than S returns (0, ErrWriteTooLong)
\* and changes nothing of the instance or the disk.
C2_TooLongRejected ==
    [][(last'.op = "Write" /\ MaxFile > 0 /\ last'.len > MaxFile) =>
          /\ last'.n = 0
          /\ last'.err = "TooLong"
          /\ last'.rot = 0
          /\ inst' = inst]_vars

\* C2 witness: a write longer than S was rejected while a file was open.
C2_Witness ==
    /\ last.op = "Write" /\ MaxFile > 0 /\ last.len > MaxFile
    /\ last.err = "TooLong" /\ file = "open"

\* C3: while the handle is open, the tracked size is the length of the
\* canonical file on disk.
C3_SizeIsLength == file = "open" => (canon # NoFile /\ size = canon)

\* C3 witness: a short write left fewer bytes than requested in the open file.
C3_Witness ==
    /\ file = "open" /\ last.op = "Write" /\ last.werr = "short"
    /\ last.wrote > 0 /\ size = canon /\ size > 0

\* C4: LumberjackRoller with DirectRotateStrategy: after construction and
\* after every Write that returns a nil error the canonical file is empty, and
\* the bytes of that Write are in the backup of the current time.
C4_DirectLeavesEmpty ==
    Direct =>
        /\ last.op = "New" => (file = "open" /\ canon = 0 /\ size = 0)
        /\ (last.op = "Write" /\ last.err = "nil") =>
              /\ file = "open" /\ canon = 0 /\ size = 0
              /\ last.n = last.len
              /\ backups[NameNow] = last.len

\* C4 witness: a Write of some bytes returned nil and they are in a backup.
C4_Witness ==
    /\ Direct /\ last.op = "Write" /\ last.err = "nil" /\ last.len > 0
    /\ backups[NameNow] = last.len /\ canon = 0

\* C5: a Write that reaches the file write returns the error of the file
\* write, if it has one, and the number of bytes it appended, and advances the
\* tracked size by that number.
C5_WriteReturnsWritten ==
    [][(last'.op = "Write" /\ last'.reached) =>
          /\ last'.werr # "nil" => last'.err = last'.werr
          /\ last'.n = last'.wrote
          /\ last'.rot = 0 => size' = size + last'.wrote
          /\ (last'.rotOk /\ ~Direct) => size' = last'.wrote]_vars

\* C6: a rotation in which a step fails returns the error of a step, leaves
\* the handle nil and signals no retention pass; the Write that triggered it
\* returns 0.
C6_FailedRotation ==
    [][(last'.op \in {"Write", "Rotate"} /\ last'.rot = 1 /\ ~last'.rotOk
           /\ ~panicked') =>
          /\ last'.err \in RotErrs
          /\ last'.n = 0
          /\ file' = "nil"
          /\ millCh' = millCh
          /\ worker' = worker
          /\ unseen' = unseen]_vars

\* C6 witness: a Write whose rotation moved the file away and then could not
\* open the new one.
C6_Witness ==
    /\ last.op = "Write" /\ last.rot = 1 /\ ~last.rotOk /\ last.err = "open"
    /\ file = "nil" /\ canon = NoFile /\ backups[NameNow] # NoFile

\* No step of this call failed on the filesystem.
NoFault(l) == l.err \notin RotErrs /\ l.werr # "short"

\* C7: after a failed rotation left the handle nil, the next Write of an
\* admissible length, with no fault, succeeds and its bytes are in the
\* canonical file.
C7_WriteReopens ==
    [][(file = "nil" /\ last.rot = 1 /\ ~last.rotOk /\ last.err \in RotErrs
           /\ last'.op = "Write" /\ last'.err # "TooLong" /\ NoFault(last')) =>
          /\ last'.err = "nil"
          /\ last'.n = last'.len
          /\ last'.wrote = last'.len]_vars

\* C8: a rotation made while the canonical file does not exist, with no
\* fault, succeeds, leaves the backups unchanged and opens an empty canonical
\* file (which then holds only the bytes of the Write that rotated first).
C8_RotateWithoutFile ==
    [][(canon = NoFile /\ last'.op \in {"Write", "Rotate"} /\ last'.rot = 1
           /\ last'.err \notin {"close", "mkdir", "chown", "open", "stat", "panic"}) =>
          /\ last'.rotOk
          /\ backups' = backups
          /\ file' = "open"
          /\ canon' = (IF Direct THEN 0 ELSE last'.wrote)
          /\ size' = canon']_vars

\* C9: while millCh is open, a rotation never panics in mill and never waits
\* for the worker to take a step: at most one request is pending, a request
\* made while one is pending is dropped, a request made with none pending is
\* kept (LumberjackRoller) or handed to the waiting worker (Roller).
C9_MillNeverBlocks ==
    [][/\ millCh' <= 1
       /\ (last'.op \in {"Write", "Rotate"} /\ last'.rotOk /\ ~closed) =>
             /\ ~panicked'
             /\ millCh = 1 => (millCh' = 1 /\ worker' = worker)
             /\ (millCh = 0 /\ cfg.impl = "L") => (millCh' = 1 /\ worker' = worker)
             /\ (millCh = 0 /\ cfg.impl = "R") =>
                   /\ millCh' = 0
                   /\ worker' = (IF worker = "recv" THEN "pass" ELSE worker)]_vars

\* C9 witness: a rotation succeeded while a pass was running, and its request
\* is the one pending.
C9_Witness ==
    /\ cfg.impl = "L" /\ last.rot = 1 /\ last.rotOk
    /\ worker = "pass" /\ millCh = 1

\* C10: LumberjackRoller, fair worker: after every successful rotation a
\* retention pass starts.
C10_PassFollowsRotation == (cfg.impl = "L" /\ unseen) ~> ~unseen

\* C10 witness: a rotation succeeded while a pass was running; no pass has
\* started since.
C10_Witness ==
    /\ cfg.impl = "L" /\ last.rot = 1 /\ last.rotOk
    /\ worker = "pass" /\ unseen

\* C11: a Close that returns leaves the handle nil, and in the step that
\* follows its return the worker starts no retention pass, whether a request
\* was pending or not.
C11_CloseStopsWorker ==
    [][/\ (last'.op = "Close" /\ ~panicked') => file' = "nil"
       /\ (last.op = "Close" /\ ~panicked) => ~(worker' = "pass" /\ worker # "pass")]_vars

\* What the call of goroutine p does when it runs alone, from the state in
\* which it took the lock.
Alone(c) ==
    LET s == [Cur EXCEPT !.file = c.snap.file, !.size = c.snap.size,
                         !.createTime = c.snap.createTime, !.canon = c.snap.canon,
                         !.closed = c.snap.closed]
    IN  IF c.op = "Write"
        THEN IF cfg.impl = "L" THEN LWrite(s, c.len, "none", c.len, c.t)
             ELSE RWrite(s, c.len, "none", c.len, c.t)
        ELSE LET r == IF c.op = "Rotate"
                      THEN IF cfg.impl = "L" THEN LRotate(s, "none", c.t)
                           ELSE RRotate(s, "none", c.t)
                      ELSE IF cfg.impl = "L" THEN LClose(s, "none")
                           ELSE RCloseOp(s, "none")
             IN  [s |-> r.s, n |-> 0, err |-> r.err]

\* C12: whatever the other goroutines do meanwhile, a call that is about to
\* return has left the handle, the tracked size, the creation time and the
\* canonical file, and returns the count and the error, exactly as if it had
\* run alone from the state in which it took the lock; and only the holder of
\* the lock is between Lock and Unlock.
C12_Serialized ==
    \A p \in Callers :
        /\ calls[p].pc = "unlock" =>
              LET e == Alone(calls[p])
              IN  /\ file = e.s.file
                  /\ size = e.s.size
                  /\ createTime = e.s.createTime
                  /\ canon = e.s.canon
                  /\ closed = e.s.closed
                  /\ calls[p].n = e.n
                  /\ calls[p].err = e.err
        /\ calls[p].pc \in {"rot", "write", "add", "close", "unlock"} => mu = p

\* C12 witness: a Write that rotated is about to return while the other
\* goroutine waits for the lock.
C12_Witness ==
    \E p \in Callers, q \in Callers :
        /\ p # q
        /\ calls[p].pc = "unlock" /\ calls[p].op = "Write" /\ calls[p].n > 0
        /\ calls[p].t > 0 /\ size = calls[p].n
        /\ calls[q].pc = "lock" /\ calls[q].op = "Write"

\* The directory now, and after the step.
DirNow == Dir(backups, gzs)
DirNext == Dir(backups', gzs')

\* The backup of timestamp x has a file, compressed or not.
Present(d, x) == d.log[x] # NoFile \/ d.gz[x] # NoFile

\* The backups of the directory.
Kept(d) == {x \in DOMAIN d.log : Present(d, x)}

\* The c most recent backups of the directory.
Recent(d, c) == {x \in Kept(d) : Cardinality({y \in Kept(d) : y > x}) < c}

\* The options with the count cap or the age cap relaxed or removed.
Relaxed(o) ==
    {[o EXCEPT !.FileMaxCount = c, !.FileMaxAge = a] :
        c \in {k \in CountCaps : k = 0 \/ k >= o.FileMaxCount},
        a \in {k \in AgeCaps : k = 0 \/ k >= o.FileMaxAge}}

\* C13: with a count cap C and an age cap A (and no size cap), a pass keeps a
\* backup exactly when it is among the C most recent and its timestamp is not
\* before now - A; and with either cap relaxed or removed the pass keeps
\* every backup it keeps with the caps as they are.
C13_CountAndAge ==
    [][(last'.op = "Mill" /\ cfg.MaxSize = 0 /\ cfg.FileMaxCount > 0
           /\ cfg.FileMaxAge > 0) =>
          \A d \in {DirNow}, keep \in {Kept(DirNext)}, zFirst \in {last'.zFirst} :
              /\ \A x \in MillNames :
                    x \in keep <=>
                        /\ x \in Recent(d, cfg.FileMaxCount)
                        /\ timeFromName(x) >= now - cfg.FileMaxAge
              /\ \A o \in Relaxed(cfg), g \in GzLens :
                    keep \subseteq Kept(millRunOnce(o, d, zFirst, g, now))]_vars

\* C13 witness: a pass with both caps removed a backup that is among the C
\* most recent but too old, and kept the other.
C13_Witness ==
    /\ last.op = "Mill" /\ cfg.MaxSize = 0 /\ cfg.FileMaxCount = 2 /\ cfg.FileMaxAge = 1
    /\ Kept(Dir(last.log, last.gz)) = {1, MaxBackups}
    /\ Kept(DirNow) = {MaxBackups}

\* Only the count cap is set, and compression is off.
OnlyCount ==
    /\ cfg.FileMaxCount > 0 /\ cfg.MaxSize = 0 /\ cfg.FileMaxAge = 0 /\ ~cfg.Compress

\* C14: with only a count cap C, a pass leaves every file, compressed or not,
\* of the C most recent backups as it is and removes every file of every
\* older backup.
C14_CountCap ==
    [][(last'.op = "Mill" /\ OnlyCount) =>
          \A rec \in {Recent(DirNow, cfg.FileMaxCount)} :
              \A x \in MillNames :
                  /\ backups'[x] = (IF x \in rec THEN backups[x] ELSE NoFile)
                  /\ gzs'[x] = (IF x \in rec THEN gzs[x] ELSE NoFile)]_vars

\* C14 witness: C = 2 and backups at T1 < T2 < T3, one of them with both its
\* files: after the pass those of T2 and T3 remain.
C14_Witness ==
    /\ last.op = "Mill" /\ OnlyCount /\ cfg.FileMaxCount = 2
    /\ Kept(Dir(last.log, last.gz)) = {1, 2, 3}
    /\ last.log[3] # NoFile /\ last.gz[3] # NoFile
    /\ Kept(DirNow) = {2, 3}
    /\ backups[3] # NoFile /\ gzs[3] # NoFile

\* The total size of the first i files.
RECURSIVE PrefixSize(_, _, _)
PrefixSize(files, d, i) ==
    IF i = 0 THEN 0 ELSE PrefixSize(files, d, i - 1) + Size(d, files[i])

\* The longest prefix of the files whose total size is at most max.
LongestPrefix(files, d, max) ==
    LET fit == {i \in 0..Len(files) : PrefixSize(files, d, i) <= max}
    IN  SubSeq(files, 1, CHOOSE i \in fit : \A j \in fit : j <= i)

\* C15: with a total-size cap M the size filter keeps exactly the longest
\* newest-first prefix of the catalog whose total size is at most M, whatever
\* the other options; with no other cap and no compression that prefix is
\* what the pass leaves in the directory.
C15_SizeCap ==
    [][(last'.op = "Mill" /\ cfg.MaxSize > 0) =>
          \A d \in {DirNow} :
              \A files \in {oldLogFiles(d, last'.zFirst)} :
                  \A pre \in {LongestPrefix(files, d, cfg.MaxSize)} :
                      /\ SizeWalk(files, d, 0, cfg.MaxSize) = pre
                      /\ (cfg.FileMaxCount = 0 /\ cfg.FileMaxAge = 0 /\ ~cfg.Compress) =>
                            DirNext = RemoveOthers(d, {pre[i] : i \in 1..Len(pre)})]_vars

\* C15 witness: the newest backup fits M, the next one does not, and the
\* oldest, which alone would fit, is removed with it.
C15_Witness ==
    /\ last.op = "Mill" /\ cfg.MaxSize = 2
    /\ cfg.FileMaxCount = 0 /\ cfg.FileMaxAge = 0 /\ ~cfg.Compress
    /\ last.log[1] = 1 /\ last.log[2] = 2 /\ last.log[3] = 1
    /\ Kept(Dir(last.log, last.gz)) = {1, 2, 3}
    /\ \A x \in MillNames : last.gz[x] = NoFile
    /\ Kept(DirNow) = {3}

\* C16: with no count cap and no age cap, a pass removes no backup: every
\* backup of the directory still has a file after it.
C16_NoCapsNoDeletion ==
    [][(last'.op = "Mill" /\ cfg.FileMaxCount = 0 /\ cfg.FileMaxAge = 0) =>
          Kept(DirNow) \subseteq Kept(DirNext)]_vars

\* C17: with compression on, a pass that follows a pass changes nothing in
\* the directory; and a first pass with no cap on a directory of one
\* uncompressed backup leaves it compressed and not uncompressed.
C17_SecondPassIdle ==
    [][(last'.op = "Mill" /\ cfg.Compress) =>
          /\ last.op = "Mill" => DirNext = DirNow
          /\ \A x \in MillNames :
                (/\ cfg.MaxSize = 0 /\ cfg.FileMaxCount = 0 /\ cfg.FileMaxAge = 0
                 /\ Kept(DirNow) = {x} /\ gzs[x] = NoFile) =>
                    (backups'[x] = NoFile /\ gzs'[x] # NoFile)]_vars

\* C18: the timestamp that timeFromName reads in the name of the backup a
\* rotation has just made is the time of the rotation.
C18_NameRoundTrip ==
    (/\ cfg.impl = "L" /\ last.op \in {"Write", "Rotate"} /\ last.rotOk
     /\ backups[backupName(now)] # NoFile) =>
        timeFromName(backupName(now)) = now

\* The options the constructor must refuse.
BadConfig ==
    \/ cfg.FileName = ""
    \/ cfg.impl = "L" /\ cfg.RotateStrategy = SizeRotateStrategy /\ cfg.FileMaxSize <= 0

\* C19: a constructor called with an empty file name, or (LumberjackRoller)
\* with size rotation and a max file size <= 0, returns an error and no
\* instance, touches no file and starts no worker.
C19_BadConfigRefused ==
    [][(last'.op = "New" /\ BadConfig) =>
          /\ last'.err = "config"
          /\ canon' = canon
          /\ backups' = backups
          /\ file' = "nil"
          /\ worker' = "none"
          /\ millCh' = 0]_vars

\* C19 witness: size rotation with max file size 0 was refused while a full
\* canonical file was on the disk.
C19_Witness ==
    /\ last.op = "New" /\ last.err = "config"
    /\ cfg.impl = "L" /\ cfg.FileName # "" /\ cfg.FileMaxSize = 0
    /\ canon = SizeCap /\ worker = "none"

\* The statements of compressLogFile that fail after the compressed file was
\* opened for writing.
LateStages == {"copy", "gzclose", "gzfclose", "fclose", "remove"}

\* C20: at every statement of every compression, failing or not, each backup
\* that had an uncompressed file still has it, or has a complete compressed
\* file; the uncompressed file goes only in the last statement, after the
\* compressed file was completed and closed; and when a statement fails the
\* uncompressed file is intact and, if the failure came after the compressed
\* file was opened for writing, the compressed file is removed.
C20_CompressionKeepsContent ==
    [][/\ \A x \in MillNames :
             /\ last.log[x] # NoFile => (backups'[x] = last.log[x] \/ gzs'[x] >= 1)
             /\ backups'[x] # backups[x] =>
                   /\ comp.name = x /\ comp.at = "remove" /\ comp'.err = "nil"
                   /\ backups'[x] = NoFile
                   /\ gzs'[x] = gzs[x] /\ gzs[x] >= 1
       /\ (comp'.at = "done" /\ comp'.err # "nil") =>
             /\ backups'[comp'.name] = last.log[comp'.name]
             /\ backups'[comp'.name] # NoFile
             /\ comp'.err \in LateStages => gzs'[comp'.name] = NoFile]_vars

\* C20 witness: the compressed file was complete and closed, closing the
\* source failed: the compressed file is gone and the source is there.
C20_Witness ==
    /\ comp.at = "done" /\ comp.err = "fclose"
    /\ backups[comp.name] # NoFile /\ gzs[comp.name] = NoFile
    /\ last.gz[comp.name] # NoFile

\* C21: Roller with lifecycle management, fair worker, millCh open: after
\* every successful rotation a retention pass starts, also when the rotation
\* found the worker in a pass or not yet at its receive.
C21_RollerPassFollowsRotation == (cfg.impl = "R" /\ cfg.Lifecycle /\ unseen) ~> ~unseen

\* The bytes held by the files b[x] of the names in a set.
RECURSIVE BackupBytes(_, _)
BackupBytes(b, names) ==
    IF names = {} THEN 0
    ELSE LET x == CHOOSE y \in names : TRUE
         IN  (IF b[x] = NoFile THEN 0 ELSE b[x]) + BackupBytes(b, names \ {x})

\* The bytes on disk: the canonical file c and the backups b.
Stored(c, b) == (IF c = NoFile THEN 0 ELSE c) + BackupBytes(b, Names)

\* LumberjackRoller with no retention cap and no compression.
NoRetention ==
    /\ cfg.impl = "L" /\ ~cfg.Compress
    /\ cfg.MaxSize = 0 /\ cfg.FileMaxCount = 0 /\ cfg.FileMaxAge = 0

\* C22: LumberjackRoller with no retention cap and no compression: a
\* successful Write adds exactly the bytes it accepted to the bytes on disk, a
\* successful Rotate leaves them as they are, and a successful rotation of an
\* existing canonical file gives it a backup name that no backup had, also
\* when the clock has not advanced since the last rotation.
C22_BytesKept ==
    [][(NoRetention /\ last'.op \in {"Write", "Rotate"} /\ last'.err = "nil") =>
          /\ Stored(canon', backups') = Stored(canon, backups) + last'.n
          /\ (last'.rotOk /\ canon # NoFile) =>
                (backups[NameNow] = NoFile /\ backups'[NameNow] # NoFile)]_vars

\* C23: Roller: once Close has returned, no call of Close, Rotate or Write
\* panics: none closes the closed millCh and none sends on it.
C23_NoPanicAfterClose == (cfg.impl = "R" /\ closed) => ~panicked

====
